---- MODULE Spec2Model ----
(***************************************************************************)
(* Model of MessengerServer (src/anonmsg.py): the accept loop, one session *)
(* thread per accepted connection (handle_client), process_message and     *)
(* broadcast.  No lock guards clients, messages or next_id, so every       *)
(* access of a session thread to one of them is a step of its own; purely  *)
(* local computation is folded into the shared access that follows it.     *)
(***************************************************************************)
EXTENDS Integers, Sequences, FiniteSets, TLC

\* ------------------------------------------------------------- bounds ---
NumConns == 3      \* sockets of the model
\* Spec: two clients
PairConns == 2     \* client connections the listener accepts
MaxUnits == 2      \* units read by all active loops together
MaxFaults == 2     \* departures from the plain run: a handshake that
                   \* registers nobody, a peer that closes or resets, stop()
\* SpecTrio: three clients of a server that is not stopped
TrioUnits == 1
TrioFaults == 1
\* SpecLog: three clients of a server whose log holds earlier messages,
\* no failure and no stop()
LogFaults == 0
\* SpecApi: two clients that chat while the web interface polls the log
MaxPolls == 2      \* calls of /api/messages
MaxSince == 2      \* largest since_id asked for
\* SpecStall: two clients, one chat message, a peer that stops reading
StallUnits == 1
MaxStalls == 1
\* SpecChat: two clients, two units of any kind, one failure or stop()
ChatUnits == 2
ChatFaults == 1
\* SpecStop: two clients, one unit, and stop() or one other failure
StopUnits == 1
StopFaults == 1

\* ---------------------------------------------------------- constants ---
HISTORY_LIMIT == 50

Conns == 1..NumConns
None == "None"              \* no call site, no handshake read yet
Nil == [nil |-> TRUE]       \* a local that holds no dict
NoSocket == 0               \* exclude=None

SP == " "
TAB == "\t"
Whitespace == {SP, TAB, "\n", "\r"}
Letter(c) == <<"a", "b", "c", "d", "e", "f">>[c]

\* what recv() can hand to the handshake of connection c: raw text, "" on
\* a closed peer
Handshakes(c) ==
    { <<>>, <<SP>>, <<TAB, SP>>, <<Letter(c)>>, <<SP, Letter(c)>>,
      <<Letter(c), "\n">>, <<TAB, Letter(c), SP>> }

\* decoded units a client can send in the active loop; the k-th unit read
\* by the server carries a text and a timestamp of its own
Texts == <<"hi", "yo", "ok", "no", "so">>
ChatUnit(k) == [kind |-> "chat", text |-> Texts[k], timestamp |-> 122 + k]
\* type "message" without text or timestamp; valid JSON of another type (or
\* no dict at all); text that is not JSON; bytes that are not UTF-8
OtherUnits ==
    { [kind |-> "nofields"], [kind |-> "other"], [kind |-> "malformed"],
      [kind |-> "notutf8"] }
AllKinds == {"chat", "nofields", "other", "malformed", "notutf8"}

\* lengths of the log a server holds when the first client of a run
\* connects: the messages of sessions that have ended by then
LogLens == {10, 200}
PastMessage(k) ==
    [id |-> k, sender |-> <<"z">>, text |-> "old", timestamp |-> k]
PastLog(L) == [k \in 1..L |-> PastMessage(k)]

VARIABLES
    running,     \* self.running
    clients,     \* self.clients: dict in insertion order, <<socket, nickname>>
    messages,    \* self.messages
    next_id,     \* self.next_id
    lpc,         \* position of the accept loop of start()
    accepted,    \* number of client connections accepted so far
    temp,        \* the temporary connection made by stop()
    pc,          \* position of each session thread
    nickname,    \* handle_client / process_message local
    message,     \* process_message local: the dict being built
    tmp,         \* value of next_id loaded by "self.next_id += 1"
    unit,        \* handle_client local "data": the unit just decoded
    sender,      \* process_message local "nickname"
    snap,        \* broadcast local: list(self.clients.keys()) minus exclude
    idx,         \* broadcast local: position in snap
    data,        \* broadcast argument
    ctx,         \* call site of the running broadcast
    inbox,       \* per connection: the events send() has written to it
    broken,      \* per connection: the peer is gone, send() raises
    closed,      \* per connection: client_socket.close() was called
    quota,       \* what the environment of a run may do, fixed by Init
    units,       \* number of units read so far
    faults,      \* number of departures from the plain run so far
    handshake,   \* per connection: class of the handshake read
    notified,    \* per connection: notifications broadcast on its behalf
    present,     \* per connection: registry keys when it was registered
    appendView,  \* per entry appended in this run: registry keys at its append
    responses,   \* the bodies handle_api_messages has written, call by call
    stalled,     \* connections whose peer has stopped reading
    reads        \* when quota.trace: who read which kind of unit, in order

shared == <<running, clients, messages, next_id>>
listener == <<lpc, accepted, temp>>
locals == <<nickname, message, tmp, unit, sender, snap, idx, data,
           ctx>>
world == <<inbox, broken, closed, quota, units, faults>>
ghost == <<handshake, notified, present, appendView>>
env == <<responses, stalled, reads>>
vars == <<shared, listener, pc, locals, world, ghost, env>>

\* ------------------------------------------------------------ helpers ---
Range(s) == { s[k] : k \in DOMAIN s }

IsSpace(ch) == ch \in Whitespace

RECURSIVE lstrip(_)
lstrip(s) ==
    IF s = <<>> THEN s
    ELSE IF IsSpace(Head(s)) THEN lstrip(Tail(s)) ELSE s

RECURSIVE rstrip(_)
rstrip(s) ==
    IF s = <<>> THEN s
    ELSE IF IsSpace(s[Len(s)]) THEN rstrip(SubSeq(s, 1, Len(s) - 1)) ELSE s

\* the nickname taken as it was read
strip_none(s) == s

\* str.strip()
strip(s) == rstrip(lstrip(s))

\* list(self.clients.keys())
Keys(d) == [k \in DOMAIN d |-> d[k][1]]

\* client in self.clients
InClients(c) == \E k \in DOMAIN clients : clients[k][1] = c

\* self.clients[c], for c in self.clients
Lookup(c) == clients[CHOOSE k \in DOMAIN clients : clients[k][1] = c][2]

\* del self.clients[c]
Deleted(d, c) == SelectSeq(d, LAMBDA e : e[1] # c)

\* self.messages[-n:]
recent(log, n) ==
    IF Len(log) <= n THEN log ELSE SubSeq(log, Len(log) - n + 1, Len(log))

\* the filter with the id asked for let through
since_from(log, since_id) == SelectSeq(log, LAMBDA msg : msg.id >= since_id)

\* [msg for msg in messages if msg["id"] > since_id]
since(log, since_id) == SelectSeq(log, LAMBDA msg : msg.id > since_id)

\* a broadcast with an excluded client that sends to nobody
Recipients_none_when_excluding(keys, exclude) ==
    IF exclude = NoSocket THEN keys ELSE <<>>

\* the clients a broadcast loops over and sends to: "if client != exclude"
Recipients(keys, exclude) == SelectSeq(keys, LAMBDA k : k # exclude)

HistoryEvent(h) == [type |-> "history", messages |-> h]
JoinNotice(n) == [type |-> "notification", text |-> <<n, "joined">>]
LeaveNotice(n) == [type |-> "notification", text |-> <<n, "left">>]
MessageEvent(m) == [type |-> "message", message |-> m]

\* ---------------------------------------------------------------- Init ---
InitWith(q) ==
    /\ quota = q
    /\ running = TRUE
    /\ clients = <<>>
    /\ messages = PastLog(q.log)
    /\ next_id = q.log + 1
    /\ lpc = "accept"
    /\ accepted = 0
    /\ temp = "none"
    /\ pc = [c \in Conns |-> "idle"]
    /\ nickname = [c \in Conns |-> <<>>]
    /\ message = [c \in Conns |-> Nil]
    /\ tmp = [c \in Conns |-> 0]
    /\ unit = [c \in Conns |-> Nil]
    /\ sender = [c \in Conns |-> <<>>]
    /\ snap = [c \in Conns |-> <<>>]
    /\ idx = [c \in Conns |-> 0]
    /\ data = [c \in Conns |-> Nil]
    /\ ctx = [c \in Conns |-> None]
    /\ inbox = [c \in Conns |-> {}]
    /\ broken = [c \in Conns |-> FALSE]
    /\ closed = [c \in Conns |-> FALSE]
    /\ units = 0
    /\ faults = 0
    /\ handshake = [c \in Conns |-> None]
    /\ notified = [c \in Conns |-> {}]
    /\ present = [c \in Conns |-> {}]
    /\ appendView = <<>>
    /\ responses = <<>>
    /\ stalled = {}
    /\ reads = <<>>

\* after MessengerServer(...) and the first lines of start(): the socket
\* listens, self.running is True, the accept loop waits in accept()
Init == InitWith([conns |-> PairConns, units |-> MaxUnits,
                  faults |-> MaxFaults, log |-> 0,
                  kinds |-> AllKinds, senders |-> Conns,
                  polls |-> 0, stalls |-> 0, trace |-> FALSE])

InitTrio == InitWith([conns |-> NumConns, units |-> TrioUnits,
                      faults |-> TrioFaults, log |-> 0,
                      kinds |-> AllKinds, senders |-> Conns,
                  polls |-> 0, stalls |-> 0, trace |-> FALSE])

\* the same server later in its life: L messages were appended one after the
\* other, their ids are 1..L, and the sessions that sent them have ended
InitLog ==
    \E L \in LogLens :
        InitWith([conns |-> NumConns, units |-> MaxUnits,
                  faults |-> LogFaults, log |-> L,
                  kinds |-> {"chat"}, senders |-> 1..PairConns,
                  polls |-> 0, stalls |-> 0, trace |-> FALSE])

\* two clients that send chat messages while /api/messages is polled
InitApi ==
    InitWith([conns |-> PairConns, units |-> MaxUnits, faults |-> LogFaults,
              log |-> 0, kinds |-> {"chat"}, senders |-> Conns,
              polls |-> MaxPolls, stalls |-> 0, trace |-> FALSE])

\* two clients, one of which may stop reading what the server sends
InitStall ==
    InitWith([conns |-> PairConns, units |-> StallUnits,
              faults |-> LogFaults, log |-> 0, kinds |-> {"chat"},
              senders |-> Conns, polls |-> 0, stalls |-> MaxStalls, trace |-> FALSE])

\* two clients of a server that run_server may stop
InitStop ==
    InitWith([conns |-> PairConns, units |-> StopUnits,
              faults |-> StopFaults, log |-> 0, kinds |-> AllKinds,
              senders |-> Conns, polls |-> 0, stalls |-> 0, trace |-> FALSE])

\* two clients whose units are recorded as they are read
InitChat ==
    InitWith([conns |-> PairConns, units |-> ChatUnits,
              faults |-> ChatFaults, log |-> 0, kinds |-> AllKinds,
              senders |-> Conns, polls |-> 0, stalls |-> 0, trace |-> TRUE])

Goto(c, loc) == pc' = [pc EXCEPT ![c] = loc]

Fault == faults < quota.faults /\ faults' = faults + 1

\* ------------------------------------------------- listener and stop() ---
\* lines 65, 78-80: "while self.running" after a session thread was
\* started; the finally clause of start() when the loop ends
ListenerLoop == lpc' = IF running THEN "accept" ELSE "exit"

\* lines 67-72: accept() returns a client connection and its session
\* thread is started
AcceptClient ==
    /\ lpc = "accept"
    /\ accepted < quota.conns
    /\ accepted' = accepted + 1
    /\ ListenerLoop
    /\ Goto(accepted + 1, "handshake")
    /\ UNCHANGED <<shared, temp, locals, world, ghost, env>>

\* lines 67-72, 87-89: accept() returns the temporary connection of
\* stop(); its session reads "" as the nickname, returns, finds nothing
\* to unregister and closes
AcceptTemp ==
    /\ lpc = "accept"
    /\ temp = "pending"
    /\ temp' = "accepted"
    /\ ListenerLoop
    /\ UNCHANGED <<shared, accepted, pc, locals, world, ghost, env>>

\* lines 82-91: stop(), called once by run_server
Stop ==
    /\ temp = "none"
    /\ Fault
    /\ running' = FALSE
    /\ temp' = "pending"
    /\ UNCHANGED <<clients, messages, next_id, lpc, accepted, pc, locals,
                   inbox, broken, closed, units, ghost, quota, env>>

\* the peer of connection r stops reading: the buffers between the server
\* and r fill up, and from then on send() to r blocks (no socket of the
\* server has a timeout)
Stall(r) ==
    /\ Cardinality(stalled) < quota.stalls
    /\ pc[r] # "idle"
    /\ r \notin stalled
    /\ stalled' = stalled \cup {r}
    /\ UNCHANGED <<shared, listener, pc, locals, world, ghost, responses,
                   reads>>

\* send() to socket r raises: r was closed by its session, or its peer is
\* gone, now or since an earlier send
Raises(r) ==
    IF broken[r] \/ closed[r]
      THEN UNCHANGED <<broken, faults>>
      ELSE Fault /\ broken' = [broken EXCEPT ![r] = TRUE]

\* ------------------------------------------------------- handle_client ---
\* all-whitespace handshake, judged on the raw text
IsBlank(raw) == \A k \in DOMAIN raw : raw[k] \in Whitespace

\* lines 95-102: read the nickname, give up or register
Handshake(c) ==
    /\ pc[c] = "handshake"
    /\ \E raw \in Handshakes(c) :
         /\ handshake' = [handshake EXCEPT ![c] =
                            IF IsBlank(raw) THEN "blank" ELSE "text"]
         /\ IF strip(raw) = <<>>
              THEN /\ Goto(c, "fin")
                   /\ Fault
                   /\ UNCHANGED <<clients, nickname, present>>
              ELSE /\ clients' = Append(clients, <<c, strip(raw)>>)
                   /\ UNCHANGED faults
                   /\ nickname' = [nickname EXCEPT ![c] = strip(raw)]
                   /\ present' = [present EXCEPT ![c] = Range(Keys(clients))]
                   /\ Goto(c, "history")
    /\ UNCHANGED <<running, messages, next_id, listener, message, tmp, unit,
                   sender, snap, idx, data, ctx, inbox, broken, closed, units,
                   notified, appendView, quota, env>>

\* lines 97, 136: recv() raises or the bytes are not UTF-8
HandshakeError(c) ==
    /\ pc[c] = "handshake"
    /\ handshake' = [handshake EXCEPT ![c] = "error"]
    /\ Fault
    /\ Goto(c, "fin")
    /\ UNCHANGED <<shared, listener, locals, inbox, broken, closed, units,
                   notified, present, appendView, quota, env>>

\* lines 106-110: self.messages[-50:] is read and sent to the new client
SendHistory(c) ==
    /\ pc[c] = "history"
    /\ ~broken[c]
    /\ c \notin stalled
    /\ LET history == recent(messages, HISTORY_LIMIT)
       IN inbox' = [inbox EXCEPT ![c] = @ \cup {HistoryEvent(history)}]
    /\ Goto(c, "bcast_join")
    /\ UNCHANGED <<shared, listener, nickname, message, tmp, unit, sender,
                   snap, idx, data, ctx, broken, closed, units, faults, ghost,
                   quota, env>>

\* lines 110, 136: client_socket.send(history) raises
SendHistoryFail(c) ==
    /\ pc[c] = "history"
    /\ Raises(c)
    /\ Goto(c, "fin")
    /\ UNCHANGED <<shared, listener, nickname, message, tmp, unit, sender,
                   snap, idx, data, ctx, inbox, closed, units, ghost, quota,
                   env>>

\* line 119: while self.running
LoopCheck(c) ==
    /\ pc[c] = "loop"
    /\ Goto(c, IF running THEN "recv" ELSE "fin")
    /\ UNCHANGED <<shared, listener, locals, world, ghost, env>>

\* lines 121-123, 131-132, 136: recv() returns "" or raises: the session
\* leaves the loop for the finally clause
RecvClosed(c) ==
    /\ pc[c] = "recv"
    /\ Fault
    /\ Goto(c, "fin")
    /\ UNCHANGED <<shared, listener, locals, inbox, broken, closed, units,
                   ghost, quota, env>>

\* where the session goes with the unit it has read: line 121 decodes the
\* bytes outside the inner try, so bytes that are not UTF-8 end the session
\* at line 136; lines 125-130 swallow whatever json.loads, data["type"] and
\* process_message raise, the KeyError of line 155 included
AfterRecv(c, u) ==
    CASE u.kind = "notutf8" -> "fin"
      [] u.kind \in {"chat", "nofields"} /\ InClients(c) -> "pm_id"
      [] OTHER -> "loop"

\* lines 121-130 and 155: a unit is read and decoded; a unit of type
\* "message" enters process_message, which first looks the sender up
RecvUnit(c) ==
    /\ pc[c] = "recv"
    /\ units < quota.units
    /\ c \in quota.senders
    /\ units' = units + 1
    /\ \E u \in { v \in {ChatUnit(units + 1)} \cup OtherUnits :
                     v.kind \in quota.kinds } :
         /\ Goto(c, AfterRecv(c, u))
         /\ IF AfterRecv(c, u) = "pm_id"
              THEN /\ unit' = [unit EXCEPT ![c] = u]
                   /\ sender' = [sender EXCEPT ![c] = Lookup(c)]
              ELSE UNCHANGED <<unit, sender>>
         /\ reads' = IF quota.trace
                        THEN Append(reads, [conn |-> c, kind |-> u.kind])
                        ELSE reads
    /\ UNCHANGED <<shared, listener, nickname, message, tmp, snap, idx, data,
                   ctx, inbox, broken, closed, faults, ghost, quota,
                   responses, stalled>>

\* lines 140-141, 148-151: the finally clause: "if client_socket in
\* self.clients" and the lookup of the nickname, or close() at once
FinCheck(c) ==
    /\ pc[c] = "fin"
    /\ IF InClients(c)
         THEN /\ nickname' = [nickname EXCEPT ![c] = Lookup(c)]
              /\ Goto(c, "fin_del")
              /\ UNCHANGED closed
         ELSE /\ Goto(c, "done")
              /\ closed' = [closed EXCEPT ![c] = TRUE]
              /\ UNCHANGED nickname
    /\ UNCHANGED <<shared, listener, message, tmp, unit, sender, snap, idx,
                   data, ctx, inbox, broken, units, faults, ghost, quota,
                   env>>

\* line 142: del self.clients[client_socket]
FinDel(c) ==
    /\ pc[c] = "fin_del"
    /\ IF InClients(c)
         THEN /\ clients' = Deleted(clients, c)
              /\ Goto(c, "bcast_leave")
         ELSE /\ Goto(c, "crashed")
              /\ UNCHANGED clients
    /\ UNCHANGED <<running, messages, next_id, listener, locals, world, ghost,
                   env>>

\* ----------------------------------------------------- process_message ---
\* process_message as it would be if it took the id before it read the
\* fields of the unit: a unit without text or timestamp consumes an id
PmBuild_id_before_fields(c) ==
    /\ pc[c] = "pm_id"
    /\ IF unit[c].kind = "chat"
         THEN /\ message' = [message EXCEPT ![c] =
                               [id |-> next_id, sender |-> sender[c],
                                text |-> unit[c].text,
                                timestamp |-> unit[c].timestamp]]
              /\ Goto(c, "pm_load")
              /\ UNCHANGED next_id
         ELSE /\ Goto(c, "loop")
              /\ next_id' = next_id + 1
              /\ UNCHANGED message
    /\ unit' = [unit EXCEPT ![c] = Nil]
    /\ sender' = [sender EXCEPT ![c] = <<>>]
    /\ UNCHANGED <<running, clients, messages, listener, nickname, tmp, snap,
                   idx, data, ctx, world, ghost, env>>

\* lines 156-161: the dict is built, "id" first
PmBuild(c) ==
    /\ pc[c] = "pm_id"
    /\ IF unit[c].kind = "chat"
         THEN /\ message' = [message EXCEPT ![c] =
                               [id |-> next_id, sender |-> sender[c],
                                text |-> unit[c].text,
                                timestamp |-> unit[c].timestamp]]
              /\ Goto(c, "pm_load")
         ELSE /\ Goto(c, "loop")
              /\ UNCHANGED message
    /\ unit' = [unit EXCEPT ![c] = Nil]
    /\ sender' = [sender EXCEPT ![c] = <<>>]
    /\ UNCHANGED <<shared, listener, nickname, tmp, snap, idx, data, ctx,
                   world, ghost, env>>

\* line 162, first half: load self.next_id
PmLoad(c) ==
    /\ pc[c] = "pm_load"
    /\ tmp' = [tmp EXCEPT ![c] = next_id]
    /\ Goto(c, "pm_store")
    /\ UNCHANGED <<shared, listener, nickname, message, unit, sender, snap,
                   idx, data, ctx, world, ghost, env>>

\* line 162, second half: store the sum
PmStore(c) ==
    /\ pc[c] = "pm_store"
    /\ next_id' = tmp[c] + 1
    /\ tmp' = [tmp EXCEPT ![c] = 0]
    /\ Goto(c, "pm_append")
    /\ UNCHANGED <<running, clients, messages, listener, nickname, message,
                   unit, sender, snap, idx, data, ctx, world, ghost, env>>

\* line 163: self.messages.append(message)
PmAppend(c) ==
    /\ pc[c] = "pm_append"
    /\ messages' = Append(messages, message[c])
    /\ appendView' = Append(appendView, Range(Keys(clients)))
    /\ Goto(c, "bcast_msg")
    /\ UNCHANGED <<running, clients, next_id, listener, locals, world,
                   handshake, notified, present, env>>

\* ----------------------------------------------------------- broadcast ---
\* the three call sites of broadcast: lines 113-116, 166-169, 144-147
Payload(c) ==
    CASE pc[c] = "bcast_join" -> JoinNotice(nickname[c])
      [] pc[c] = "bcast_msg" -> MessageEvent(message[c])
      [] pc[c] = "bcast_leave" -> LeaveNotice(nickname[c])

Site(c) ==
    CASE pc[c] = "bcast_join" -> "join"
      [] pc[c] = "bcast_msg" -> "msg"
      [] pc[c] = "bcast_leave" -> "leave"

LeaveBroadcast(c) ==
    /\ snap' = [snap EXCEPT ![c] = <<>>]
    /\ idx' = [idx EXCEPT ![c] = 0]
    /\ data' = [data EXCEPT ![c] = Nil]
    /\ ctx' = [ctx EXCEPT ![c] = None]
    /\ message' = [message EXCEPT ![c] = Nil]

\* broadcast returns to its call site: on to the active loop (lines 119,
\* 128-130), or on to close() at the end of the finally clause (line 149)
Return(c, site) ==
    /\ IF site = "leave"
         THEN Goto(c, "done") /\ closed' = [closed EXCEPT ![c] = TRUE]
         ELSE Goto(c, "loop") /\ UNCHANGED closed
    /\ LeaveBroadcast(c)

\* lines 173-177: return at once when stopped, else snapshot the registry
BroadcastEnter(c) ==
    /\ pc[c] \in {"bcast_join", "bcast_msg", "bcast_leave"}
    /\ notified' = [notified EXCEPT ![c] =
                      IF Site(c) = "msg" THEN @ ELSE @ \cup {Site(c)}]
    /\ LET list == IF running
                     THEN Recipients(Keys(clients),
                                     IF Site(c) = "join" THEN c ELSE NoSocket)
                     ELSE <<>>
       IN IF list = <<>>
            THEN Return(c, Site(c))
            ELSE /\ snap' = [snap EXCEPT ![c] = list]
                 /\ idx' = [idx EXCEPT ![c] = 1]
                 /\ data' = [data EXCEPT ![c] = Payload(c)]
                 /\ ctx' = [ctx EXCEPT ![c] = Site(c)]
                 /\ Goto(c, "send")
                 /\ UNCHANGED <<message, closed>>
    /\ UNCHANGED <<shared, listener, nickname, tmp, unit, sender, inbox,
                   broken, units, faults, handshake, present, appendView,
                   quota, env>>

\* the client the loop of lines 177-184 is at
Client(c) == snap[c][idx[c]]

\* next iteration, or the end of the loop
Advance(c) ==
    IF idx[c] + 1 > Len(snap[c])
      THEN Return(c, ctx[c])
      ELSE /\ idx' = [idx EXCEPT ![c] = @ + 1]
           /\ Goto(c, "send")
           /\ UNCHANGED <<snap, data, ctx, message, closed>>

\* line 180: client.send() succeeds
SendOk(c) ==
    /\ pc[c] = "send"
    /\ ~broken[Client(c)] /\ ~closed[Client(c)]
    /\ Client(c) \notin stalled
    /\ inbox' = [inbox EXCEPT ![Client(c)] = @ \cup {data[c]}]
    /\ Advance(c)
    /\ UNCHANGED <<shared, listener, nickname, tmp, unit, sender, broken,
                   units, faults, ghost, quota, env>>

\* lines 180-183: client.send() raises; "if client in self.clients"
SendFail(c) ==
    /\ pc[c] = "send"
    /\ Raises(Client(c))
    /\ IF InClients(Client(c))
         THEN /\ Goto(c, "del")
              /\ UNCHANGED <<snap, idx, data, ctx, message, closed>>
         ELSE Advance(c)
    /\ UNCHANGED <<shared, listener, nickname, tmp, unit, sender, inbox,
                   units, ghost, quota, env>>

\* line 184: del self.clients[client], a KeyError when it is gone by now
Del(c) ==
    /\ pc[c] = "del"
    /\ IF InClients(Client(c))
         THEN /\ clients' = Deleted(clients, Client(c))
              /\ Advance(c)
         ELSE /\ Goto(c, "raise")
              /\ UNCHANGED <<clients, snap, idx, data, ctx, message, closed>>
    /\ UNCHANGED <<running, messages, next_id, listener, nickname, tmp, unit,
                   sender, inbox, broken, units, faults, ghost, quota, env>>

\* the KeyError leaves broadcast: caught at line 136 (join), swallowed at
\* line 129 (chat), or uncaught in the finally clause (leave)
Propagate(c) ==
    /\ pc[c] = "raise"
    /\ Goto(c, CASE ctx[c] = "join" -> "fin"
                 [] ctx[c] = "msg" -> "loop"
                 [] ctx[c] = "leave" -> "crashed")
    /\ LeaveBroadcast(c)
    /\ UNCHANGED <<shared, listener, nickname, tmp, unit, sender, world,
                   ghost, env>>

\* ------------------------------------------------- handle_api_messages ---
\* lines 208-220: GET /api/messages?since_id=n; the body written is the
\* filtered log, len is the length of the log that was filtered
ApiMessages ==
    /\ Len(responses) < quota.polls
    /\ \E n \in 0..MaxSince :
         responses' = Append(responses,
                             [since_id |-> n, len |-> Len(messages),
                              messages |-> since(messages, n)])
    /\ UNCHANGED <<shared, listener, pc, locals, world, ghost, stalled,
                   reads>>

\* ---------------------------------------------------------------- Next ---
handle_client(c) ==
    \/ Handshake(c)
    \/ HandshakeError(c)
    \/ SendHistory(c)
    \/ SendHistoryFail(c)
    \/ LoopCheck(c)
    \/ RecvClosed(c)
    \/ RecvUnit(c)
    \/ FinCheck(c)
    \/ FinDel(c)

process_message(c) ==
    \/ PmBuild(c)
    \/ PmLoad(c)
    \/ PmStore(c)
    \/ PmAppend(c)

broadcast(c) ==
    \/ BroadcastEnter(c)
    \/ SendOk(c)
    \/ SendFail(c)
    \/ Del(c)
    \/ Propagate(c)

Next ==
    \/ AcceptClient
    \/ AcceptTemp
    \/ Stop
    \/ \E c \in Conns : handle_client(c)
    \/ \E c \in Conns : process_message(c)
    \/ \E c \in Conns : broadcast(c)

Spec == Init /\ [][Next]_vars

\* three clients and no stop()
NextTrio ==
    \/ AcceptClient
    \/ \E c \in Conns : handle_client(c)
    \/ \E c \in Conns : process_message(c)
    \/ \E c \in Conns : broadcast(c)

SpecTrio == InitTrio /\ [][NextTrio]_vars

\* three clients, chat messages only, no failure and no stop()
NextLog ==
    \/ AcceptClient
    \/ \E c \in Conns :
          \/ Handshake(c)
          \/ SendHistory(c)
          \/ LoopCheck(c)
          \/ RecvUnit(c)
    \/ \E c \in Conns : process_message(c)
    \/ \E c \in Conns : BroadcastEnter(c) \/ SendOk(c)

SpecLog == InitLog /\ [][NextLog]_vars

\* the plain run of two clients, and the web interface polling
NextApi ==
    \/ NextLog
    \/ ApiMessages

SpecApi == InitApi /\ [][NextApi]_vars

SpecChat == InitChat /\ [][Next]_vars

\* the steps a session thread takes by itself once it is scheduled: they
\* wait for nothing a client or the operator has to do
Runs(c) ==
    \/ SendHistory(c)
    \/ (broken[c] \/ closed[c]) /\ SendHistoryFail(c)
    \/ /\ pc[c] = "send"
       /\ broken[Client(c)] \/ closed[Client(c)]
       /\ SendFail(c)
    \/ LoopCheck(c)
    \/ FinCheck(c)
    \/ FinDel(c)
    \/ process_message(c)
    \/ BroadcastEnter(c)
    \/ SendOk(c)
    \/ Del(c)
    \/ Propagate(c)

\* every thread that can run is scheduled again and again
Scheduling == \A c \in Conns : WF_vars(Runs(c))

\* the plain run of two clients, one of which may stall
NextStall ==
    \/ NextLog
    \/ \E r \in Conns : Stall(r)

SpecStall == InitStall /\ [][NextStall]_vars /\ Scheduling

\* the server with stop(): the connection stop() makes is accepted as soon
\* as the accept loop runs
SpecStop == InitStop /\ [][Next]_vars /\ Scheduling /\ WF_vars(AcceptTemp)

\* ====================================================== properties =====
InProcessMessage(c) == pc[c] \in {"pm_id", "pm_load", "pm_store", "pm_append"}
InBroadcast(c) == pc[c] \in {"send", "del", "raise"}
Registered(c) == nickname[c] # <<>>
Healthy(c) == ~broken[c] /\ ~closed[c]
Ids(log) == { log[k].id : k \in DOMAIN log }
Ascending(log) == \A k \in 1..(Len(log) - 1) : log[k].id < log[k + 1].id
IsPrefix(s, t) == Len(s) <= Len(t) /\ SubSeq(t, 1, Len(s)) = s
\* the k-th entry appended in this run
Appended(k) == messages[quota.log + k]
\* its broadcast is over: no session holds it as its message
Delivered(k) == \A c \in Conns : message[c] # Appended(k)
\* message events of connection c that carry a message sent by b
ChatFrom(c, b) ==
    { e \in inbox[c] : e.type = "message" /\ e.message.sender = nickname[b] }

\* C1: once no session is inside process_message, the ids of the N Messages
\* of the log are exactly 1..N, no id twice and none skipped
C1_IdsExactlyOneToN ==
    (\A c \in Conns : ~InProcessMessage(c))
        => /\ Ids(messages) = 1..Len(messages)
           /\ \A i, j \in DOMAIN messages :
                  i # j => messages[i].id # messages[j].id

\* C2: the log only grows at its end, and its ids ascend strictly from the
\* first entry to the last
C2_AppendOnlyAscending ==
    /\ [][IsPrefix(messages, messages')]_vars
    /\ [](Ascending(messages))

\* C2, the half that the code keeps: the log only grows at its end
C2_AppendOnly == [][IsPrefix(messages, messages')]_vars

\* C3: a broadcast in which a send failed goes on to every other client of
\* its snapshot and returns; it never leaves the loop with an exception
C3_BroadcastNeverRaises == \A c \in Conns : pc[c] # "raise"

\* C4: a session that was registered and has ended had its registry entry
\* removed and its leave notification broadcast
C4_OneLeavePerDeadConnection ==
    \A c \in Conns :
        (Registered(c) /\ pc[c] \in {"done", "crashed"})
            => ~InClients(c) /\ "leave" \in notified[c]

\* C5: every message event a client holds carries a Message of the log with
\* the sender's nickname and the text and timestamp of a unit that was read;
\* and once the broadcast of a Message is over, every other connection that
\* was registered when it was appended, and still is, holds its event
C5_ChatReachesEveryOther ==
    /\ \A c \in Conns : \A e \in inbox[c] :
           e.type = "message" =>
               /\ e.message \in Range(messages)
               /\ \E b \in Conns : e.message.sender = nickname[b]
               /\ \E k \in 1..units :
                      /\ e.message.text = ChatUnit(k).text
                      /\ e.message.timestamp = ChatUnit(k).timestamp
    /\ \A k \in DOMAIN appendView : \A c \in appendView[k] :
           ( /\ running /\ Delivered(k)
             /\ nickname[c] # Appended(k).sender
             /\ InClients(c) /\ Healthy(c) )
               => MessageEvent(Appended(k)) \in inbox[c]

\* C6: a registered connection that has been sent its history holds every
\* Message appended since its registration, in that history or as an event
C6_JoinerMissesNothing ==
    \A k \in DOMAIN appendView : \A c \in appendView[k] :
        ( /\ running /\ Delivered(k)
          /\ InClients(c) /\ Healthy(c) /\ pc[c] # "history" )
            => \/ MessageEvent(Appended(k)) \in inbox[c]
               \/ \E e \in inbox[c] :
                      e.type = "history" /\ Appended(k) \in Range(e.messages)

\* C7: a registry entry comes from a handshake with text in it and holds
\* that text trimmed; a blank handshake registers nothing, is sent nothing
\* and starts no broadcast
C7_BlankHandshakeNeverRegisters ==
    \A c \in Conns :
        /\ InClients(c) =>
               /\ handshake[c] = "text"
               /\ Lookup(c) # <<>>
               /\ Head(Lookup(c)) \notin Whitespace
               /\ Lookup(c)[Len(Lookup(c))] \notin Whitespace
        /\ handshake[c] = "blank" =>
               /\ ~InClients(c)
               /\ inbox[c] = {}
               /\ notified[c] = {}
               /\ pc[c] \in {"fin", "done"}

C7_Witness ==
    \E c, d \in Conns :
        handshake[c] = "blank" /\ pc[c] = "done" /\ InClients(d)

\* C8: the join notification of a new client is never sent to the new
\* client, and once its join broadcast is over every connection that was in
\* the registry when it registered, and still is, holds it
C8_JoinToEveryOther ==
    \A c \in Conns :
        /\ Registered(c) => JoinNotice(nickname[c]) \notin inbox[c]
        /\ ctx[c] = "join" => c \notin Range(snap[c])
        /\ ("join" \in notified[c] /\ ctx[c] # "join" /\ running) =>
               \A a \in present[c] :
                   (InClients(a) /\ Healthy(a))
                       => JoinNotice(nickname[c]) \in inbox[a]

\* C9: a client that was registered when b registered is handed a chat
\* message of b only when it already holds b's join notification
C9_JoinBeforeChat ==
    [][\A a, b \in Conns :
         (a \in present[b] /\ ChatFrom(a, b)' # ChatFrom(a, b))
             => JoinNotice(nickname[b]) \in inbox[a]]_vars

C9_Witness ==
    \E a, b \in Conns : a \in present[b] /\ ChatFrom(a, b) # {}

\* the history events a step hands to connection c
HistorySent(c) == { e \in inbox'[c] \ inbox[c] : e.type = "history" }
\* the last n entries of the log, in log order
LastOfLog(n) == [k \in 1..n |-> messages[Len(messages) - n + k]]
Min(a, b) == IF a < b THEN a ELSE b

\* C10: the history sent to a new client is the last min(50, L) Messages
\* of the log of length L it was read from, in log order, and their ids
\* ascend
C10_HistoryLastFiftyAscending ==
    [][\A c \in Conns : \A e \in HistorySent(c) :
         /\ e.messages = LastOfLog(Min(50, Len(messages)))
         /\ Ascending(e.messages)]_vars

\* C10, the half that the code keeps: the last min(50, L) in log order
C10_HistoryLastFifty ==
    [][\A c \in Conns : \A e \in HistorySent(c) :
         e.messages = LastOfLog(Min(50, Len(messages)))]_vars

\* the log as it was when call k read it
LogAt(k) == SubSeq(messages, 1, responses[k].len)
\* the Messages a sequence holds
Held(seq) == { seq[k] : k \in DOMAIN seq }

\* C11: a since_id call returns exactly the Messages of the log whose id is
\* greater than since_id, in log order, and a later call with a smaller or
\* equal since_id returns every Message an earlier call returned
C11_SinceExactAndMonotonic ==
    /\ \A k \in DOMAIN responses :
           /\ Held(responses[k].messages) =
                  { m \in Held(LogAt(k)) : m.id > responses[k].since_id }
           /\ \A i, j \in DOMAIN responses[k].messages :
                  i < j => \E a, b \in DOMAIN messages :
                               /\ a < b
                               /\ messages[a] = responses[k].messages[i]
                               /\ messages[b] = responses[k].messages[j]
    /\ \A i, j \in DOMAIN responses :
           (i < j /\ responses[j].since_id <= responses[i].since_id)
               => Held(responses[i].messages) \subseteq
                      Held(responses[j].messages)

\* two calls with chat messages appended in between, the later one with a
\* since_id that is not larger and that filters part of the log out
C11_Witness ==
    \E i, j \in DOMAIN responses :
        /\ i < j
        /\ responses[j].since_id <= responses[i].since_id
        /\ responses[i].messages # <<>>
        /\ responses[j].len > responses[i].len
        /\ Len(responses[j].messages) < responses[j].len

\* C12: a broadcast that is under way ends: it returns to the session that
\* issued it, whatever a recipient does
C12_BroadcastCompletes ==
    \A c \in Conns : InBroadcast(c) ~> ~InBroadcast(c)

\* the session of c has been started and has not ended
Active(c) == pc[c] \notin {"idle", "handshake", "done", "crashed"}

\* C13: once stop() was called the accept loop exits, every session that is
\* active gets to the end of its teardown, and no connection stays in the
\* registry
C13_StopUnwinds ==
    /\ ~running ~> (lpc = "exit")
    /\ \A c \in Conns :
           (~running /\ Active(c)) ~> (pc[c] \in {"done", "crashed"})
    /\ \A c \in Conns : (~running /\ InClients(c)) ~> ~InClients(c)

\* C13, the part that the code keeps: the accept loop exits
C13_AcceptLoopExits == ~running ~> (lpc = "exit")

\* session c still has the k-th unit read in process_message
Pending(k, c) ==
    \/ pc[c] = "pm_id" /\ unit[c] = ChatUnit(k)
    \/ /\ pc[c] \in {"pm_load", "pm_store", "pm_append"}
       /\ message[c].text = ChatUnit(k).text
\* the log entries made of the k-th unit read, with the nickname of c
Logged(k, c) ==
    { i \in DOMAIN messages :
        /\ messages[i].text = ChatUnit(k).text
        /\ messages[i].timestamp = ChatUnit(k).timestamp
        /\ messages[i].sender = nickname[c] }

\* C14: a well-formed chat unit read by a session in its active loop is in
\* the log exactly once, under the nickname of that session, as soon as
\* the session is through with it
C14_ChatUnitAppendedOnce ==
    \A k \in DOMAIN reads :
        reads[k].kind = "chat" =>
            IF Pending(k, reads[k].conn)
              THEN Logged(k, reads[k].conn) = {}
              ELSE Cardinality(Logged(k, reads[k].conn)) = 1

\* C15: a session leaves its handshake or its active loop for its teardown
\* only on what its own connection did (the result of a read, the failed
\* send of its history) or because the server was stopped
C15_OnlyOwnFailureEndsSession ==
    [][\A c \in Conns :
         (pc[c] # "fin" /\ pc'[c] = "fin")
             => \/ pc[c] \in {"handshake", "history", "recv"}
                \/ pc[c] = "loop" /\ ~running]_vars

\* C16: a session that has left its loop and ended has completed its
\* teardown: its connection is not in the registry and its socket is closed
C16_TeardownCompletes ==
    \A c \in Conns :
        pc[c] \in {"done", "crashed"} => ~InClients(c) /\ closed[c]

\* C16, the part that the code keeps: the connection of a session that has
\* ended is not in the registry, and no step adds it again
C16_EndedStaysUnregistered ==
    /\ [](\A c \in Conns : pc[c] \in {"done", "crashed"} => ~InClients(c))
    /\ [][\A c \in Conns :
             (InClients(c)' /\ ~InClients(c)) => pc[c] = "handshake"]_vars

\* the step reads a unit: the connection that read it, and its kind
ReadsUnit == Len(reads') = Len(reads) + 1
Reader == reads'[Len(reads')].conn
KindRead == reads'[Len(reads')].kind

\* C17: the session that reads a unit that cannot be decoded, bytes that
\* are not UTF-8 or text that is not JSON, is back at the head of its loop
\* after the read, and the registry is as it was
C17_UndecodableUnitDiscarded ==
    [][(ReadsUnit /\ KindRead \in {"notutf8", "malformed"})
           => pc'[Reader] = "loop" /\ clients' = clients]_vars

\* C17, the part that the code keeps: text that is not JSON is discarded
C17_NotJsonDiscarded ==
    [][(ReadsUnit /\ KindRead = "malformed")
           => pc'[Reader] = "loop" /\ clients' = clients]_vars

\* what a unit that is ignored must leave alone: the log, next_id, the
\* registry, and what every client has been sent
Untouched == UNCHANGED <<messages, next_id, clients, inbox>>

\* C18: a unit of another type, or of type "message" without text or
\* timestamp, changes nothing: the step that reads it and the step of
\* process_message that finds the field missing leave the log, next_id, the
\* registry and every inbox as they were, and the session is back at the
\* head of its loop without having entered the increment, the append or
\* the broadcast
C18_IgnoredUnitChangesNothing ==
    [][/\ (ReadsUnit /\ KindRead = "other")
            => Untouched /\ pc'[Reader] = "loop"
       /\ (ReadsUnit /\ KindRead = "nofields")
            => Untouched /\ pc'[Reader] \in {"pm_id", "loop"}
       /\ \A c \in Conns :
            (pc[c] = "pm_id" /\ unit[c].kind = "nofields" /\ pc'[c] # "pm_id")
                => Untouched /\ pc'[c] = "loop"]_vars

\* a registered session has read a unit of type "message" without its
\* fields, has been through process_message and is back in its loop, and
\* a unit of another type has been read too
C18_Witness ==
    \E i, j \in DOMAIN reads :
        /\ reads[i].kind = "nofields"
        /\ reads[j].kind = "other"
        /\ InClients(reads[i].conn)
        /\ pc[reads[i].conn] = "loop"
        /\ unit[reads[i].conn] = Nil

\* C19: a leave notification is broadcast for a connection only after a
\* join notification was broadcast for it
C19_LeaveOnlyAfterJoin ==
    \A c \in Conns : "leave" \in notified[c] => "join" \in notified[c]

\* C19, the part that the code keeps: a session that got past the send of
\* its history broadcasts its join before anything else
C19_JoinFirstAfterHistory ==
    \A c \in Conns :
        ("leave" \in notified[c] /\ "join" \notin notified[c])
            => \A e \in inbox[c] : e.type # "history"

\* the message events a step hands to connection c
ChatSent(c) == { e \in inbox'[c] \ inbox[c] : e.type = "message" }

\* C20: every client receives its message events in ascending order of
\* id: no step hands a client a message event with an id smaller than the
\* id of a message event it already holds
C20_ChatInIdOrder ==
    [][\A c \in Conns : \A e \in ChatSent(c) : \A f \in inbox[c] :
           f.type = "message" => ~(e.message.id < f.message.id)]_vars

\* C20, the part that the code keeps: the message events that one sender
\* broadcasts reach a client in the order in which that sender read them
C20_PerSenderInOrder ==
    [][\A c \in Conns : \A e \in ChatSent(c) : \A f \in inbox[c] :
           (f.type = "message" /\ f.message.sender = e.message.sender)
               => f.message.timestamp < e.message.timestamp]_vars

\* the connection whose session sent the k-th Message appended in this run
IsSender(c, k) == Registered(c) /\ nickname[c] = Appended(k).sender

\* no client is sent the message event of one Message twice: the clients
\* that a broadcast of a message event has yet to send to do not hold it
AtMostOnce ==
    \A c \in Conns :
        (pc[c] = "send" /\ ctx[c] = "msg")
            => \A i \in idx[c]..Len(snap[c]) : data[c] \notin inbox[snap[c][i]]

\* the message events of one chat unit carry one id, whoever holds them
SameId ==
    \A c, d \in Conns : \A e \in inbox[c] : \A f \in inbox[d] :
        (e.type = "message" /\ f.type = "message"
           /\ e.message.text = f.message.text)
            => e.message.id = f.message.id

\* C21: once the broadcast of a Message is over, its sender, if it is still
\* registered and its socket is sound, holds the message event of its own
\* Message; it was sent that event once, and the event carries the id that
\* every other recipient was sent
C21_SenderReceivesOwnOnce ==
    /\ \A k \in DOMAIN appendView : \A c \in Conns :
           ( /\ running /\ Delivered(k) /\ IsSender(c, k)
             /\ InClients(c) /\ Healthy(c) )
               => MessageEvent(Appended(k)) \in inbox[c]
    /\ AtMostOnce
    /\ SameId

\* C21, the part that the code keeps: never twice, and one id for all
C21_OnceAtMostSameId == AtMostOnce /\ SameId

====
